---- MODULE Spec2Model ----
(***************************************************************************)
(* Matchmaking core of the PeThoria server (src/server.js): the swipe      *)
(* recorder with its match detector (POST /api/matches/swipe) and          *)
(* candidate discovery (GET /api/matches/nearby), over the User            *)
(* collection declared by userSchema.                                      *)
(*                                                                         *)
(* Ids are sequences of segments: the segments are what '_' separates.     *)
(* A user's _id is one segment, <<"a">>; the compound candidate id         *)
(* `${user._id}_${pet._id}` is <<"a", "p1">>; a missing profileId is <<>>. *)
(***************************************************************************)
EXTENDS Integers, Sequences, FiniteSets, TLC

\* ---------------------------------------------------------------- bounds
MaxCalls == 3       \* swipe requests that reach their save over a behaviour
MaxClock == 1       \* largest value new Date() returns

\* ------------------------------------------------------------- the world
\* Documents of the User collection.  "g" is an id no document has (a
\* token outlives its account; a swipe may name a deleted profile).
Users == {"a", "b", "c", "d"}
Tokens == {"a", "b", "g"}                 \* req.user.userId of swipe requests
NearbyTokens == {"a", "d", "g"}           \* req.user.userId of nearby requests

\* location.coordinates of each document, as a position in metres on a line;
\* <<>> is the array of a document whose coordinates were never set
\* (signup creates users without a location).
Coordinates == [a |-> <<0>>, b |-> <<1609>>, c |-> <<4828>>, d |-> <<>>]

\* pets of each document: sequences of [id, isActive]
Pets ==
  [a |-> << [id |-> "p1", isActive |-> TRUE] >>,
   b |-> << [id |-> "p1", isActive |-> TRUE], [id |-> "p2", isActive |-> FALSE],
            [id |-> "p3", isActive |-> TRUE] >>,
   c |-> << >>,
   d |-> << >>]

\* lastActive within the last 30 days
RecentlyActive == [a |-> TRUE, b |-> TRUE, c |-> TRUE, d |-> TRUE]

\* pets.birthDate of each document's pets, in the order of Pets, as
\* <<year, day of the year>>; the documents are written by the registration
\* service, not by these handlers
BirthDates ==
  [a |-> << <<2010, 100>> >>,
   b |-> << <<2010, 300>>, <<2000, 1>>, <<2009, 100>> >>,
   c |-> << >>,
   d |-> << >>]

\* isVerified && profileImages.length > 0 of each document
IsReal == [a |-> TRUE, b |-> FALSE, c |-> TRUE, d |-> FALSE]

\* the order in which find() without a sort returns the documents
StoreOrder == <<"d", "a", "b", "c">>

\* request inputs
ProfileIds ==
  { <<>>, <<"a">>, <<"b">>, <<"g">>, <<"b", "p1">> }
Actions == {"like", "pass", "superlike", "block"}
Types == {"pets", "owners"}
Distances == {2, 10}
Limits == {1, 20}
\* req.query.limit of the requests that test the limit: <<>> is a query
\* without one
QueryLimits == { <<>>, <<1>>, <<20>>, <<100>> }

AgeRanges == {"", "puppy", "young", "adult", "senior"}   \* "": no filter
\* filters.ageRange of the requests that test validation
AnyAgeRanges == {"", "senior", "kitten"}
\* the calendar day of a filtered request: birthdays of a's pet and a day
\* between two of them
Todays ==
  { <<2011, 50>>, <<2011, 100>>, <<2012, 100>>, <<2013, 100>>,
    <<2017, 100>>, <<2018, 100>> }

\* req.user.userId and req.body.name of the profile requests
ProfileTokens == {"a", "g"}
NewNames == {"n1", "n2"}

Reqs == {1}
\* the requests the server can have in flight at once: the handlers are
\* async functions, and every await lets another request run
Workers == {1, 2}

VARIABLES
  swipedProfiles,   \* [Users -> Seq([profileId, action, timestamp])], persisted
  matches,          \* [Users -> Seq([matchedUserId, timestamp, isActive])], persisted
  totalMatches,     \* [Users -> Nat], persisted
  now,              \* the value new Date() last returned
  req,              \* [Workers -> the locals of the request a worker is serving]
  log,              \* the swipe requests answered 200 or 500 so far, in order
  name,             \* [Users -> the name field of the document], persisted
  cache             \* [Users -> the value under user:<id>:profile, <<>> if none]

vars == <<swipedProfiles, matches, totalMatches, now, req, log, name, cache>>

\* ------------------------------------------------------------ pure helpers
\* profileId.includes('_')
Includes_(pid) == Len(pid) > 1

\* profileId.includes('_') ? profileId.split('_')[0] : profileId
TargetUserId(pid) == IF Includes_(pid) THEN <<pid[1]>> ELSE pid

\* Schema type ObjectId: a value casts iff it is one id (24 hex digits);
\* a compound id does not cast, and the document then fails validation
\* on save.
CastsToObjectId(pid) == Len(pid) = 1

\* User.findById: the key of the document, or "none"
FindById(id) == IF Len(id) = 1 /\ id[1] \in Users THEN id[1] ELSE "none"

\* the action test of the validation left out
ValidAction_Any(action) == TRUE

\* ['like', 'pass', 'superlike'].includes(action)
ValidAction(action) == action \in {"like", "pass", "superlike"}

\* the action test of the find left out: any swipe on the current user counts
MutualLike_AnyAction(history, currentId) ==
  \E i \in 1..Len(history) : history[i].profileId = currentId

\* targetUser.swipedProfiles.find(swipe => swipe.profileId == currentUser._id
\*   && (swipe.action === 'like' || swipe.action === 'superlike'))
MutualLike(history, currentId) ==
  \E i \in 1..Len(history) :
    /\ history[i].profileId = currentId
    /\ (history[i].action = "like" \/ history[i].action = "superlike")

IdleReq ==
  [pc |-> "idle", op |-> "none", actor |-> "none", pid |-> <<>>,
   action |-> "none", swipe |-> <<>>, curMatch |-> <<>>,
   tgt |-> "none", tgtMatch |-> <<>>, isMatch |-> FALSE,
   accessed |-> FALSE, geoQuery |-> FALSE,
   type |-> "none", ageRange |-> "", prioritizeRealUsers |-> FALSE,
   today |-> <<>>, limit |-> <<>>, storeLimit |-> 0,
   profileData |-> "", keys |-> FALSE,
   status |-> 0, error |-> "", profiles |-> <<>>, list |-> <<>>]

Init ==
  /\ swipedProfiles = [u \in Users |-> <<>>]
  /\ matches = [u \in Users |-> <<>>]
  /\ totalMatches = [u \in Users |-> 0]
  /\ now = 0
  /\ req = [r \in Workers |-> IdleReq]
  /\ log = <<>>
  /\ name = [u \in Users |-> "n0"]
  /\ cache = [u \in Users |-> <<>>]

\* ------------------------------------------------- POST /api/matches/swipe
\* Validation, the load of the acting user and the push of the swipe entry
\* onto the loaded document (nothing is persisted before save()).
SwipeRequest(r, token, profileId, action) ==
  /\ req[r].pc = "idle"
  /\ Len(log) < MaxCalls
  /\ LET base == [IdleReq EXCEPT !.op = "swipe", !.actor = token,
                                 !.pid = profileId, !.action = action]
         currentUser == FindById(<<token>>)
     IN IF profileId = <<>> \/ ~ValidAction(action)
        THEN req' = [req EXCEPT ![r] =
               [base EXCEPT !.pc = "done", !.status = 400,
                            !.error = "Invalid profile ID or action"]]
        ELSE IF currentUser = "none"
        THEN req' = [req EXCEPT ![r] =
               [base EXCEPT !.pc = "done", !.status = 404,
                            !.error = "User not found", !.accessed = TRUE]]
        ELSE req' = [req EXCEPT ![r] =
               [base EXCEPT !.pc = "checkMatch", !.accessed = TRUE,
                            !.swipe = << [profileId |-> profileId,
                                          action |-> action,
                                          timestamp |-> now] >>]]
  /\ UNCHANGED <<swipedProfiles, matches, totalMatches, now, log, name, cache>>

\* The match detector: runs for like and superlike only; reads the target's
\* persisted history and pushes one match entry on each loaded document,
\* each stamped by its own new Date(): the second read returns the value of
\* the first or a later one.  No code path reads a stored timestamp, so the
\* passage of time is modelled here only, where two reads meet in one match.
SwipeCheckMatch(r) ==
  /\ req[r].pc = "checkMatch"
  /\ LET q == req[r]
         targetUserId == TargetUserId(q.pid)
         targetUser == FindById(targetUserId)
     IN IF (q.action = "like" \/ q.action = "superlike")
           /\ targetUser /= "none"
           /\ MutualLike(swipedProfiles[targetUser], <<q.actor>>)
        THEN \E t2 \in {now, now + 1} :
               /\ t2 <= MaxClock
               /\ now' = t2
               /\ req' = [req EXCEPT ![r] =
                    [q EXCEPT !.pc = "incCurrent", !.isMatch = TRUE,
                              !.tgt = targetUser,
                              !.curMatch = << [matchedUserId |-> targetUserId,
                                               timestamp |-> now,
                                               isActive |-> TRUE] >>,
                              !.tgtMatch = << [matchedUserId |-> <<q.actor>>,
                                               timestamp |-> t2,
                                               isActive |-> TRUE] >>]]
        ELSE /\ req' = [req EXCEPT ![r] = [q EXCEPT !.pc = "saveCurrent"]]
             /\ now' = now
  /\ UNCHANGED <<swipedProfiles, matches, totalMatches, log, name, cache>>

\* updateUserStats(userId, 'totalMatches', 1): an atomic $inc in the store
UpdateUserStats(userId) ==
  totalMatches' = [totalMatches EXCEPT ![userId] = @ + 1]

\* await incrementTotalMatches(currentUser._id)
IncrementCurrent(r) ==
  /\ req[r].pc = "incCurrent"
  /\ UpdateUserStats(req[r].actor)
  /\ req' = [req EXCEPT ![r].pc = "incTarget"]
  /\ UNCHANGED <<swipedProfiles, matches, now, log, name, cache>>

\* await incrementTotalMatches(targetUserId)
IncrementTarget(r) ==
  /\ req[r].pc = "incTarget"
  /\ UpdateUserStats(req[r].tgt)
  /\ req' = [req EXCEPT ![r].pc = "saveTarget"]
  /\ UNCHANGED <<swipedProfiles, matches, now, log, name, cache>>

\* targetUser.save() left out: the target's match entry is never persisted
SaveTarget_Skipped(r) ==
  /\ req[r].pc = "saveTarget"
  /\ req' = [req EXCEPT ![r].pc = "saveCurrent"]
  /\ UNCHANGED <<swipedProfiles, matches, totalMatches, now, log, name, cache>>

\* await targetUser.save(): the pushed match entry is appended to the
\* target's persisted matches.
SaveTarget(r) ==
  /\ req[r].pc = "saveTarget"
  /\ matches' = [matches EXCEPT ![req[r].tgt] = @ \o req[r].tgtMatch]
  /\ req' = [req EXCEPT ![r].pc = "saveCurrent"]
  /\ UNCHANGED <<swipedProfiles, totalMatches, now, log, name, cache>>

\* a save that drops a swipe entry already present with the same target and
\* decision
SaveCurrent_NoDuplicate(r) ==
  /\ req[r].pc = "saveCurrent"
  /\ LET q == req[r]
         Present == \E k \in 1..Len(swipedProfiles[q.actor]) :
                      /\ swipedProfiles[q.actor][k].profileId = q.swipe[1].profileId
                      /\ swipedProfiles[q.actor][k].action = q.swipe[1].action
     IN IF CastsToObjectId(q.swipe[1].profileId)
        THEN /\ swipedProfiles' = [swipedProfiles EXCEPT ![q.actor] =
                                     IF Present THEN @ ELSE @ \o q.swipe]
             /\ matches' = [matches EXCEPT ![q.actor] = @ \o q.curMatch]
             /\ req' = [req EXCEPT ![r] = [q EXCEPT !.pc = "done", !.status = 200]]
        ELSE /\ UNCHANGED <<swipedProfiles, matches>>
             /\ req' = [req EXCEPT ![r] =
                  [q EXCEPT !.pc = "done", !.status = 500,
                            !.error = "Failed to record swipe action"]]
  /\ UNCHANGED <<totalMatches, now, log, name, cache>>

\* await currentUser.save() and the response.  save() validates the document
\* first: a pushed swipe whose profileId does not cast to ObjectId rejects
\* the save and the catch block answers 500.
SaveCurrent(r) ==
  /\ req[r].pc = "saveCurrent"
  /\ LET q == req[r]
     IN IF CastsToObjectId(q.swipe[1].profileId)
        THEN /\ swipedProfiles' = [swipedProfiles EXCEPT ![q.actor] = @ \o q.swipe]
             /\ matches' = [matches EXCEPT ![q.actor] = @ \o q.curMatch]
             /\ req' = [req EXCEPT ![r] = [q EXCEPT !.pc = "done", !.status = 200]]
        ELSE /\ UNCHANGED <<swipedProfiles, matches>>
             /\ req' = [req EXCEPT ![r] =
                  [q EXCEPT !.pc = "done", !.status = 500,
                            !.error = "Failed to record swipe action"]]
  /\ UNCHANGED <<totalMatches, now, log, name, cache>>

\* The response leaves the worker; the outcome of a swipe that got as far
\* as its save joins the log.
Respond(r) ==
  /\ req[r].pc = "done"
  /\ log' = IF req[r].op = "swipe" /\ req[r].status \in {200, 500}
            THEN Append(log, [actor |-> req[r].actor, pid |-> req[r].pid,
                              action |-> req[r].action,
                              status |-> req[r].status,
                              isMatch |-> req[r].status = 200 /\ req[r].isMatch])
            ELSE log
  /\ req' = [req EXCEPT ![r] = IdleReq]
  /\ UNCHANGED <<swipedProfiles, matches, totalMatches, now, name, cache>>

\* ------------------------------------------------- GET /api/matches/nearby
MetersPerMile100 == 160934       \* 1609.34, in hundredths of a metre

\* !currentUser.location: `location` is a nested schema path whose `type`
\* has a default, so it reads as an object on every document, with or
\* without coordinates.
LocationIsFalsy(u) == FALSE

\* geolib.getDistance / the store's geo distance, in metres
GetDistance(u, v) ==
  LET x == Coordinates[u][1]
      y == Coordinates[v][1]
  IN IF x >= y THEN x - y ELSE y - x

\* only the liked profiles collected
SwipedProfileIds_LikesOnly(u) ==
  { swipedProfiles[u][i].profileId :
      i \in { k \in 1..Len(swipedProfiles[u]) : swipedProfiles[u][k].action /= "pass" } }

\* currentUser.swipedProfiles.map(profile => profile.profileId)
SwipedProfileIds(u) ==
  { swipedProfiles[u][i].profileId : i \in 1..Len(swipedProfiles[u]) }

\* the documents the geo query selects
NearbySet(cur, distance) ==
  { u \in Users :
      /\ <<u>> /= <<cur>>
      /\ <<u>> \notin SwipedProfileIds(cur)
      /\ Coordinates[u] /= <<>>
      /\ GetDistance(cur, u) * 100 <= distance * MetersPerMile100
      /\ RecentlyActive[u] }

\* $near returns the documents nearest first
RECURSIVE NearestFirst(_, _)
NearestFirst(cur, S) ==
  IF S = {} THEN <<>>
  ELSE LET u == CHOOSE x \in S :
                  \A y \in S : GetDistance(cur, x) <= GetDistance(cur, y)
       IN <<u>> \o NearestFirst(cur, S \ {u})

\* .limit(n)
Limit(s, n) == SubSeq(s, 1, IF Len(s) < n THEN Len(s) ELSE n)

\* user.pets.filter(pet => pet.isActive).map(pet => ({id: `${user._id}_${pet._id}`, ...}))
RECURSIVE PetProfiles(_, _)
PetProfiles(u, pets) ==
  IF pets = <<>> THEN <<>>
  ELSE (IF Head(pets).isActive
        THEN << [id |-> <<u, Head(pets).id>>, userId |-> <<u>>] >>
        ELSE <<>>) \o PetProfiles(u, Tail(pets))

RECURSIVE FormatProfiles_Reversed(_, _)
\* the records of a later document put before those of an earlier one
FormatProfiles_Reversed(users, type) ==
  IF users = <<>> THEN <<>>
  ELSE LET u == Head(users)
       IN FormatProfiles_Reversed(Tail(users), type)
          \o (IF type = "pets" /\ Len(Pets[u]) > 0
              THEN PetProfiles(u, Pets[u])
              ELSE << [id |-> <<u>>, userId |-> <<u>>] >>)

\* nearbyUsers.map(...).flat()
RECURSIVE FormatProfiles(_, _)
FormatProfiles(users, type) ==
  IF users = <<>> THEN <<>>
  ELSE LET u == Head(users)
       IN (IF type = "pets" /\ Len(Pets[u]) > 0
           THEN PetProfiles(u, Pets[u])
           ELSE << [id |-> <<u>>, userId |-> <<u>>] >>)
          \o FormatProfiles(Tail(users), type)

DefaultLimit == 20

\* const { ..., limit = 20 } = req.query; parseInt(limit)
ParseLimit(limit) == IF limit = <<>> THEN DefaultLimit ELSE limit[1]

Nearby(r, token, type, distance, limit) ==
  /\ req[r].pc = "idle"
  /\ LET base == [IdleReq EXCEPT !.op = "nearby", !.actor = token,
                                 !.pc = "done", !.accessed = TRUE]
         currentUser == FindById(<<token>>)
     IN IF currentUser = "none" \/ LocationIsFalsy(currentUser)
        THEN req' = [req EXCEPT ![r] =
               [base EXCEPT !.status = 400, !.error = "User location not set"]]
        ELSE IF Coordinates[currentUser] = <<>>
        THEN \* $geometry without coordinates: the store rejects the query
             req' = [req EXCEPT ![r] =
               [base EXCEPT !.status = 500, !.geoQuery = TRUE,
                            !.error = "Failed to get nearby profiles"]]
        ELSE req' = [req EXCEPT ![r] =
               [base EXCEPT !.status = 200, !.geoQuery = TRUE,
                            !.type = type, !.limit = limit,
                            !.storeLimit = ParseLimit(limit),
                            !.profiles = FormatProfiles(
                               Limit(NearestFirst(currentUser,
                                        NearbySet(currentUser, distance)),
                                     ParseLimit(limit)),
                               type)]]
  /\ UNCHANGED <<swipedProfiles, matches, totalMatches, now, log, name, cache>>

\* --------------------------------------------------------- specification
\* a step of a swipe request
SwipeStep(r) ==
  \/ \E token \in Tokens, profileId \in ProfileIds, action \in Actions :
       SwipeRequest(r, token, profileId, action)
  \/ SwipeCheckMatch(r)
  \/ IncrementCurrent(r)
  \/ IncrementTarget(r)
  \/ SaveTarget(r)
  \/ SaveCurrent(r)
  \/ Respond(r)

\* Swipe requests served one at a time
Next == \E r \in Reqs : SwipeStep(r)

Spec == Init /\ [][Next]_vars

\* Swipe and discovery requests served one at a time
NextNearby ==
  \/ \E r \in Reqs : SwipeStep(r)
  \/ \E r \in Reqs : \E token \in NearbyTokens, type \in Types,
                         distance \in Distances, limit \in Limits :
       Nearby(r, token, type, distance, <<limit>>)

SpecNearby == Init /\ [][NextNearby]_vars

\* ------------------------------------------------------ GET /api/matches
\* currentUser.matches.filter(match => match.isActive).map(match => ({
\*   id: match.matchedUserId._id, ..., timestamp: match.timestamp }))
\* over the populated matches
RECURSIVE FormatMatches_Reversed(_)
\* the entries listed newest first
FormatMatches_Reversed(ms) ==
  IF ms = <<>> THEN <<>>
  ELSE FormatMatches_Reversed(Tail(ms)) \o
       (IF Head(ms).isActive
        THEN << [id |-> <<FindById(Head(ms).matchedUserId)>>,
                 timestamp |-> Head(ms).timestamp] >>
        ELSE <<>>)

RECURSIVE FormatMatches(_)
FormatMatches(ms) ==
  IF ms = <<>> THEN <<>>
  ELSE (IF Head(ms).isActive
        THEN << [id |-> <<FindById(Head(ms).matchedUserId)>>,
                 timestamp |-> Head(ms).timestamp] >>
        ELSE <<>>) \o FormatMatches(Tail(ms))

\* an active entry whose matchedUserId populates to null: reading its _id throws
PopulateFails(ms) ==
  \E i \in 1..Len(ms) : ms[i].isActive /\ FindById(ms[i].matchedUserId) = "none"

ListMatches(r, token) ==
  /\ req[r].pc = "idle"
  /\ LET base == [IdleReq EXCEPT !.op = "matches", !.actor = token,
                                 !.pc = "done", !.accessed = TRUE]
         currentUser == FindById(<<token>>)
     IN IF currentUser = "none"
        THEN req' = [req EXCEPT ![r] =
               [base EXCEPT !.status = 404, !.error = "User not found"]]
        ELSE IF PopulateFails(matches[currentUser])
        THEN req' = [req EXCEPT ![r] =
               [base EXCEPT !.status = 500, !.error = "Failed to get matches"]]
        ELSE req' = [req EXCEPT ![r] =
               [base EXCEPT !.status = 200,
                            !.list = FormatMatches(matches[currentUser])]]
  /\ UNCHANGED <<swipedProfiles, matches, totalMatches, now, log, name, cache>>

\* Swipe and match-listing requests served one at a time
NextMatches ==
  \/ \E r \in Reqs : SwipeStep(r)
  \/ \E r \in Reqs : \E token \in Tokens : ListMatches(r, token)

SpecMatches == Init /\ [][NextMatches]_vars

\* ------------------------------------------------- store failures
\* A store call of the swipe handler rejects (timeout, lost connection).
\* updateUserStats catches its own error and the handler goes on.
FailIncrementCurrent(r) ==
  /\ req[r].pc = "incCurrent"
  /\ req' = [req EXCEPT ![r].pc = "incTarget"]
  /\ UNCHANGED <<swipedProfiles, matches, totalMatches, now, log, name, cache>>

FailIncrementTarget(r) ==
  /\ req[r].pc = "incTarget"
  /\ req' = [req EXCEPT ![r].pc = "saveTarget"]
  /\ UNCHANGED <<swipedProfiles, matches, totalMatches, now, log, name, cache>>

\* targetUser.save() rejects: the handler's catch answers 500
FailSaveTarget(r) ==
  /\ req[r].pc = "saveTarget"
  /\ req' = [req EXCEPT ![r].pc = "done", ![r].status = 500,
                        ![r].error = "Failed to record swipe action"]
  /\ UNCHANGED <<swipedProfiles, matches, totalMatches, now, log, name, cache>>

\* currentUser.save() rejects: the handler's catch answers 500
FailSaveCurrent(r) ==
  /\ req[r].pc = "saveCurrent"
  /\ req' = [req EXCEPT ![r].pc = "done", ![r].status = 500,
                        ![r].error = "Failed to record swipe action"]
  /\ UNCHANGED <<swipedProfiles, matches, totalMatches, now, log, name, cache>>

StoreFailure(r) ==
  \/ FailIncrementCurrent(r)
  \/ FailIncrementTarget(r)
  \/ FailSaveTarget(r)
  \/ FailSaveCurrent(r)

\* Swipe requests served one at a time, over a store whose writes may fail
NextFail ==
  \/ \E r \in Reqs : SwipeStep(r)
  \/ \E r \in Reqs : StoreFailure(r)

SpecFail == Init /\ [][NextFail]_vars

\* a request under way takes its next step (the store call succeeding)
Progress(r) ==
  \/ SwipeCheckMatch(r)
  \/ IncrementCurrent(r)
  \/ IncrementTarget(r)
  \/ SaveTarget(r)
  \/ SaveCurrent(r)
  \/ Respond(r)

\* ----------------------------------------------- POST /api/matches/filtered
\* the comparison of two dates
DateLeq(x, y) == x[1] < y[1] \/ (x[1] = y[1] /\ x[2] <= y[2])

\* the cases of switch (filters.ageRange); there is no default case, and any
\* other value leaves minAge and maxAge undefined and the query without a
\* birth-date range
KnownAgeRanges == {"puppy", "young", "adult", "senior"}

\* switch (filters.ageRange): <<minAge, maxAge>>
AgeBounds(ageRange) ==
  CASE ageRange = "puppy" -> <<0, 1>>
    [] ageRange = "young" -> <<1, 3>>
    [] ageRange = "adult" -> <<3, 7>>
    [] ageRange = "senior" -> <<7, 100>>

\* new Date(now.getFullYear() - years, now.getMonth(), now.getDate())
YearsBefore(today, years) == <<today[1] - years, today[2]>>

\* query['pets.birthDate'] = { $gte: minBirthDate, $lte: maxBirthDate }: on
\* an array of pets the store tests each bound against the elements on its
\* own, and both ends of the range are included
BirthDateInRange(u, ageRange, today) ==
  LET maxBirthDate == YearsBefore(today, AgeBounds(ageRange)[1])
      minBirthDate == YearsBefore(today, AgeBounds(ageRange)[2])
  IN /\ \E k \in 1..Len(BirthDates[u]) : DateLeq(minBirthDate, BirthDates[u][k])
     /\ \E k \in 1..Len(BirthDates[u]) : DateLeq(BirthDates[u][k], maxBirthDate)

\* User.find(query): no location, city, state, pet type or breed filter given
FilteredQuery(cur, ageRange, today) ==
  LET Selected(u) ==
        /\ <<u>> /= <<cur>>
        /\ <<u>> \notin SwipedProfileIds(cur)
        /\ RecentlyActive[u]
        /\ ageRange \in KnownAgeRanges => BirthDateInRange(u, ageRange, today)
  IN SelectSeq(StoreOrder, Selected)

FilteredLimit == 50

\* the comparator of matchingUsers.sort
CompareReal(a, b) ==
  IF IsReal[a] /\ ~IsReal[b] THEN -1
  ELSE IF ~IsReal[a] /\ IsReal[b] THEN 1
  ELSE 0

RECURSIVE Insert(_, _)
\* x put into the sorted s, behind every element it does not precede
Insert(x, s) ==
  IF s = <<>> THEN <<x>>
  ELSE IF CompareReal(x, Head(s)) < 0 THEN <<x>> \o s
  ELSE <<Head(s)>> \o Insert(x, Tail(s))

\* real users first, each group in the reverse of its order
Sort_Unstable(users) ==
  LET n == Len(users)
      rev == [i \in 1..n |-> users[n + 1 - i]]
      Real(u) == IsReal[u]
      NotReal(u) == ~IsReal[u]
  IN SelectSeq(rev, Real) \o SelectSeq(rev, NotReal)

RECURSIVE Sort(_)
\* Array.prototype.sort with the comparator: a stable sort
Sort(users) ==
  IF users = <<>> THEN <<>>
  ELSE Insert(users[Len(users)], Sort(SubSeq(users, 1, Len(users) - 1)))

RECURSIVE FormatFiltered(_)
\* matchingUsers.map(user => ({id: user._id, ...}))
FormatFiltered(users) ==
  IF users = <<>> THEN <<>>
  ELSE << [id |-> <<Head(users)>>, userId |-> <<Head(users)>>] >>
       \o FormatFiltered(Tail(users))

Filtered(r, token, ageRange, prioritizeRealUsers, today) ==
  /\ req[r].pc = "idle"
  /\ LET base == [IdleReq EXCEPT !.op = "filtered", !.actor = token,
                                 !.ageRange = ageRange,
                                 !.prioritizeRealUsers = prioritizeRealUsers,
                                 !.today = today,
                                 !.pc = "done", !.accessed = TRUE]
         currentUser == FindById(<<token>>)
     IN IF currentUser = "none"
        THEN req' = [req EXCEPT ![r] =
               [base EXCEPT !.status = 404, !.error = "User not found"]]
        ELSE LET matchingUsers ==
                   Limit(FilteredQuery(currentUser, ageRange, today), FilteredLimit)
             IN req' = [req EXCEPT ![r] =
                  [base EXCEPT !.status = 200,
                               !.profiles = FormatFiltered(
                                  IF prioritizeRealUsers THEN Sort(matchingUsers)
                                  ELSE matchingUsers)]]
  /\ UNCHANGED <<swipedProfiles, matches, totalMatches, now, log, name, cache>>

\* The handler on a body without a filters object: after the load of the
\* acting user, reading filters.city throws and the catch block answers 500.
FilteredWithoutFilters(r, token) ==
  /\ req[r].pc = "idle"
  /\ LET base == [IdleReq EXCEPT !.op = "filtered", !.actor = token,
                                 !.pc = "done", !.accessed = TRUE]
     IN IF FindById(<<token>>) = "none"
        THEN req' = [req EXCEPT ![r] =
               [base EXCEPT !.status = 404, !.error = "User not found"]]
        ELSE req' = [req EXCEPT ![r] =
               [base EXCEPT !.status = 500,
                            !.error = "Failed to get filtered matches"]]
  /\ UNCHANGED <<swipedProfiles, matches, totalMatches, now, log, name, cache>>

\* the requests of one pair of profiles
PairTokens == {"a", "b"}
PairProfileIds == { <<"a">>, <<"b">> }
PairActions == {"like", "pass"}

\* a step of a swipe request of the pair, one profile swiping on the other;
\* MaxCalls bounds the calls answered and in flight together
PairSwipeStep(r) ==
  \/ \E token \in PairTokens, profileId \in PairProfileIds, action \in PairActions :
       /\ profileId /= <<token>>
       /\ Len(log) + Cardinality({ w \in Workers : req[w].pc /= "idle" }) < MaxCalls
       /\ SwipeRequest(r, token, profileId, action)
  \/ Progress(r)

\* The swipes of a pair over a failing store, with the reads of both profiles
NextHeal ==
  \/ \E r \in Reqs : PairSwipeStep(r)
  \/ \E r \in Reqs : StoreFailure(r)
  \/ \E r \in Reqs : \E token \in PairTokens : ListMatches(r, token)
  \/ \E r \in Reqs : \E token \in PairTokens, type \in Types :
       Nearby(r, token, type, 10, <<>>)

\* Every request is served to its end, and each of a and b keeps listing its
\* matches and discovering candidates.
SpecHeal ==
  /\ Init /\ [][NextHeal]_vars
  /\ \A r \in Reqs : WF_vars(Progress(r))
  /\ \A r \in Reqs : \A token \in PairTokens :
       /\ SF_vars(ListMatches(r, token))
       /\ SF_vars(\E type \in Types : Nearby(r, token, type, 10, <<>>))

\* Two requests of one pair in flight at once: each step of a handler between
\* two awaits is one step, and the steps of the two requests interleave freely.
NextConc == \E r \in Workers : PairSwipeStep(r)

SpecConc == Init /\ [][NextConc]_vars

\* The swipes of a pair and filtered searches, served one at a time
NextFiltered ==
  \/ \E r \in Reqs : PairSwipeStep(r)
  \/ \E r \in Reqs : \E token \in Tokens, ageRange \in AgeRanges,
                         prioritizeRealUsers \in BOOLEAN, today \in Todays :
       Filtered(r, token, ageRange, prioritizeRealUsers, today)

SpecFiltered == Init /\ [][NextFiltered]_vars

\* The swipes of a pair and discovery requests with and without a limit
NextLimit ==
  \/ \E r \in Reqs : PairSwipeStep(r)
  \/ \E r \in Reqs : \E token \in NearbyTokens, type \in Types,
                         limit \in QueryLimits :
       Nearby(r, token, type, 10, limit)

SpecLimit == Init /\ [][NextLimit]_vars

\* a discovery request with radius 0
NearbyZeroRadius(r) ==
  \E token \in NearbyTokens, type \in Types, limit \in QueryLimits :
    Nearby(r, token, type, 0, limit)

\* a filtered search with an age bracket the switch does not know
FilteredUnknownBracket(r) ==
  \E token \in Tokens, prioritizeRealUsers \in BOOLEAN, today \in Todays :
    Filtered(r, token, "kitten", prioritizeRealUsers, today)

\* The swipes of a pair, and discovery and filtered requests with valid and
\* invalid inputs
NextValidation ==
  \/ \E r \in Reqs : PairSwipeStep(r)
  \/ \E r \in Reqs : NearbyZeroRadius(r)
  \/ \E r \in Reqs : \E token \in NearbyTokens, type \in Types :
       Nearby(r, token, type, 10, <<>>)
  \/ \E r \in Reqs : \E token \in Tokens, ageRange \in AnyAgeRanges,
                         today \in Todays :
       Filtered(r, token, ageRange, FALSE, today)
  \/ \E r \in Reqs : \E token \in Tokens : FilteredWithoutFilters(r, token)

SpecValidation == Init /\ [][NextValidation]_vars

\* ------------------------------------------------------ GET /api/profile/me
\* cacheUtils.get(cacheKey), with the cache client connected: a hit is
\* answered from the cache
GetProfile(r, token) ==
  /\ req[r].pc = "idle"
  /\ LET base == [IdleReq EXCEPT !.op = "me", !.actor = token]
         cachedProfile == IF token \in Users THEN cache[token] ELSE <<>>
     IN IF cachedProfile /= <<>>
        THEN req' = [req EXCEPT ![r] =
               [base EXCEPT !.pc = "done", !.status = 200,
                            !.profileData = cachedProfile[1]]]
        ELSE req' = [req EXCEPT ![r] = [base EXCEPT !.pc = "findProfile"]]
  /\ UNCHANGED <<swipedProfiles, matches, totalMatches, now, log, name, cache>>

\* User.findById(req.user.userId) and the profileData built from it
FindProfile(r) ==
  /\ req[r].pc = "findProfile"
  /\ LET user == FindById(<<req[r].actor>>)
     IN IF user = "none"
        THEN req' = [req EXCEPT ![r].pc = "done", ![r].status = 404,
                                ![r].error = "User not found",
                                ![r].accessed = TRUE]
        ELSE req' = [req EXCEPT ![r].pc = "setCache", ![r].accessed = TRUE,
                                ![r].profileData = name[user]]
  /\ UNCHANGED <<swipedProfiles, matches, totalMatches, now, log, name, cache>>

\* cacheUtils.set(cacheKey, profileData, 300) and the response
SetCache(r) ==
  /\ req[r].pc = "setCache"
  /\ cache' = [cache EXCEPT ![req[r].actor] = <<req[r].profileData>>]
  /\ req' = [req EXCEPT ![r].pc = "done", ![r].status = 200]
  /\ UNCHANGED <<swipedProfiles, matches, totalMatches, now, log, name>>

\* the 300 seconds of a cached value run out
Expire(u) ==
  /\ cache[u] /= <<>>
  /\ cache' = [cache EXCEPT ![u] = <<>>]
  /\ UNCHANGED <<swipedProfiles, matches, totalMatches, now, req, log, name>>

\* -------------------------------------------------- PUT /api/profile/update
\* User.findByIdAndUpdate(userId, updateData, {new: true})
UpdateProfile(r, token, newName) ==
  /\ req[r].pc = "idle"
  /\ LET base == [IdleReq EXCEPT !.op = "update", !.actor = token,
                                 !.accessed = TRUE]
         user == FindById(<<token>>)
     IN IF user = "none"
        THEN /\ req' = [req EXCEPT ![r] =
                  [base EXCEPT !.pc = "done", !.status = 404,
                               !.error = "User not found"]]
             /\ name' = name
        ELSE /\ req' = [req EXCEPT ![r] =
                  [base EXCEPT !.pc = "clearUserCache", !.profileData = newName]]
             /\ name' = [name EXCEPT ![user] = newName]
  /\ UNCHANGED <<swipedProfiles, matches, totalMatches, now, log, cache>>

\* clearUserCache: redisClient.keys(`user:${userId}:*`)
ClearUserCache(r) ==
  /\ req[r].pc = "clearUserCache"
  /\ req' = [req EXCEPT ![r].pc = "del", ![r].keys = cache[req[r].actor] /= <<>>]
  /\ UNCHANGED <<swipedProfiles, matches, totalMatches, now, log, name, cache>>

\* clearUserCache: if (keys.length > 0) await redisClient.del(keys); then the
\* response
Del(r) ==
  /\ req[r].pc = "del"
  /\ cache' = IF req[r].keys THEN [cache EXCEPT ![req[r].actor] = <<>>] ELSE cache
  /\ req' = [req EXCEPT ![r].pc = "done", ![r].status = 200]
  /\ UNCHANGED <<swipedProfiles, matches, totalMatches, now, log, name>>

\* a step of a profile request
ProfileStep(r) ==
  \/ \E token \in ProfileTokens : GetProfile(r, token)
  \/ FindProfile(r)
  \/ SetCache(r)
  \/ \E token \in ProfileTokens, newName \in NewNames : UpdateProfile(r, token, newName)
  \/ ClearUserCache(r)
  \/ Del(r)
  \/ Respond(r)

\* Profile reads and updates in flight together, over a cache whose values
\* expire
NextProfile ==
  \/ \E r \in Workers : ProfileStep(r)
  \/ \E u \in Users : Expire(u)

SpecProfile == Init /\ [][NextProfile]_vars

\* ================================================================= claims
\* the entries of u's persisted matches that reference v
MatchRefs(u, v) ==
  Cardinality({ i \in 1..Len(matches[u]) : matches[u][i].matchedUserId = <<v>> })

\* the active ones among them
ActiveMatchRefs(u, v) ==
  Cardinality({ i \in 1..Len(matches[u]) :
                  /\ matches[u][i].matchedUserId = <<v>>
                  /\ matches[u][i].isActive })

\* no request is being served
Idle == \A r \in Reqs : req[r].pc = "idle"

\* the log entry of a swipe answered 200
Swiped(e, actor, target, action) ==
  /\ e.actor = actor /\ e.pid = <<target>> /\ e.action = action /\ e.status = 200

\* C1: every profile's matches holds at most one entry referencing any given
\* other profile, after any sequence of recordSwipe calls.
C1_OneMatchPerPair ==
  \A u \in Users, v \in Users : u /= v => MatchRefs(u, v) <= 1

\* C2: whenever no recordSwipe call is in progress, B is referenced in A's
\* matches if and only if A is referenced in B's matches.
C2_Symmetry ==
  Idle => \A u \in Users, v \in Users :
            (MatchRefs(u, v) > 0) <=> (MatchRefs(v, u) > 0)

\* C3: recordSwipe(A, B, like) twice and then recordSwipe(B, A, like) leaves
\* exactly one active match entry for B in A's matches and exactly one for A
\* in B's matches.
C3_RetryThenReciprocal ==
  \A A \in {"a", "b"}, B \in {"a", "b"} :
    (/\ A /= B
     /\ Idle
     /\ Len(log) = 3
     /\ Swiped(log[1], A, B, "like")
     /\ Swiped(log[2], A, B, "like")
     /\ Swiped(log[3], B, A, "like"))
    => /\ ActiveMatchRefs(A, B) = 1
       /\ ActiveMatchRefs(B, A) = 1
       /\ log[3].isMatch

C3_Witness ==
  /\ Idle
  /\ Len(log) = 3
  /\ Swiped(log[1], "a", "b", "like")
  /\ Swiped(log[2], "a", "b", "like")
  /\ Swiped(log[3], "b", "a", "like")
  /\ MatchRefs("a", "b") = 1

\* C4: after A likes B and B likes A (answered isMatch true), a further
\* recordSwipe(A, B, like) answers isMatch false and leaves the number of
\* match entries between A and B unchanged in both lists.
C4_DuplicateIsNoNewMatch ==
  \A A \in {"a", "b"}, B \in {"a", "b"} :
    (/\ A /= B
     /\ Idle
     /\ Len(log) = 3
     /\ Swiped(log[1], A, B, "like")
     /\ Swiped(log[2], B, A, "like") /\ log[2].isMatch
     /\ Swiped(log[3], A, B, "like"))
    => /\ ~log[3].isMatch
       /\ MatchRefs(A, B) = 1
       /\ MatchRefs(B, A) = 1

\* C5: the two match entries a recordSwipe call pushes, one on the actor and
\* one on the target, carry the same timestamp.
C5_SameTimestamp ==
  \A r \in Reqs :
    (req[r].isMatch /\ req[r].tgt /= req[r].actor)
      => req[r].curMatch[1].timestamp = req[r].tgtMatch[1].timestamp

\* the profile a swipe request names
TargetOf(pid) == FindById(TargetUserId(pid))

\* a pass request carries no match; a detected match rests on a like or
\* superlike of the target on the actor
C6_PassState ==
  \A r \in Reqs :
    /\ req[r].action = "pass" =>
         /\ ~req[r].isMatch
         /\ req[r].curMatch = <<>> /\ req[r].tgtMatch = <<>>
    /\ req[r].isMatch =>
         \E i \in 1..Len(swipedProfiles[req[r].tgt]) :
           /\ swipedProfiles[req[r].tgt][i].profileId = <<req[r].actor>>
           /\ swipedProfiles[req[r].tgt][i].action \in {"like", "superlike"}

\* no step of a pass request changes matches or the match counters
C6_PassStep ==
  (\E r \in Reqs : req[r].action = "pass" \/ req'[r].action = "pass")
    => (matches' = matches /\ totalMatches' = totalMatches)

\* C6: a recordSwipe call with decision pass never answers isMatch true and
\* never changes any profile's matches (nor the match counters), and a match
\* is only ever detected on a like or superlike in the target's history:
\* a pass entry there is not counted as reciprocal interest.
C6_PassNeverMatches == []C6_PassState /\ [][C6_PassStep]_vars

\* b passed on a, then a liked b: answered 200 without a match
C6_Witness ==
  /\ Idle
  /\ Len(log) = 2
  /\ Swiped(log[1], "b", "a", "pass")
  /\ Swiped(log[2], "a", "b", "like")
  /\ ~log[2].isMatch
  /\ matches = [u \in Users |-> <<>>]

\* a swipe request (answered or being served) by u that names v's profile
SentBy(e, u, v) == e.actor = u /\ TargetOf(e.pid) = v

SentLike(A, B) ==
  \/ \E i \in 1..Len(log) :
       SentBy(log[i], A, B) /\ log[i].action \in {"like", "superlike"}
  \/ \E r \in Reqs :
       /\ req[r].op = "swipe"
       /\ SentBy(req[r], A, B) /\ req[r].action \in {"like", "superlike"}

C8_InvalidState ==
  \A r \in Reqs :
    (/\ req[r].op = "swipe"
     /\ (req[r].pid = <<>> \/ req[r].action \notin {"like", "pass", "superlike"}))
      => /\ req[r].pc = "done"
         /\ req[r].status = 400
         /\ req[r].error = "Invalid profile ID or action"
         /\ ~req[r].accessed

\* the step that takes an invalid request changes nothing persisted
C8_InvalidStep ==
  (\E r \in Reqs :
     /\ req'[r].op = "swipe"
     /\ (req'[r].pid = <<>> \/ req'[r].action \notin {"like", "pass", "superlike"}))
  => UNCHANGED <<swipedProfiles, matches, totalMatches>>

\* C8: a swipe request whose decision is none of like, pass, superlike, or
\* whose target id is missing, is answered with the validation error, without
\* any store access, and changes no swipedProfiles, matches or counter.
C8_InvalidRejected == []C8_InvalidState /\ [][C8_InvalidStep]_vars

\* a request with an unknown decision has been answered 400
C8_Witness ==
  \E r \in Reqs :
    /\ req[r].pc = "done" /\ req[r].op = "swipe"
    /\ req[r].action = "block" /\ req[r].pid = <<"b">>
    /\ req[r].status = 400 /\ ~req[r].accessed
    /\ Len(log) > 0

\* C9: discoverNearby by an existing profile without location coordinates is
\* answered with the 'location not set' error and issues no geo query.
C9_NoLocationPrecondition ==
  \A r \in Reqs :
    (/\ req[r].op = "nearby" /\ req[r].pc = "done"
     /\ req[r].actor \in Users
     /\ Coordinates[req[r].actor] = <<>>)
    => /\ req[r].status = 400
       /\ req[r].error = "User location not set"
       /\ ~req[r].geoQuery

\* the profiles a discovery response lists
Listed(q) == { q.profiles[i].userId : i \in 1..Len(q.profiles) }

C11_NotFound ==
  \A r \in Reqs :
    (/\ req[r].op = "swipe" /\ req[r].pc = "done"
     /\ req[r].pid /= <<>>
     /\ req[r].action \in {"like", "pass", "superlike"}
     /\ (FindById(<<req[r].actor>>) = "none" \/ TargetOf(req[r].pid) = "none"))
    => /\ req[r].status = 404
       /\ req[r].error = "User not found"
       /\ req[r].swipe = <<>>

\* log[i] is a swipe that named one profile id and was answered 500: its
\* store write failed
StoreFailed(e) == e.status = 500 /\ Len(e.pid) = 1

\* C12: a recordSwipe(A, B, like) call that failed with a store error at one
\* of its write steps and was retried until it succeeded leaves at most one
\* match entry for the pair in A's matches and at most one in B's.  (The log
\* ends with the successful retry; its only failures are that call's, and no
\* earlier call formed a match.)
C12_RetrySafe ==
  \A i \in 1..Len(log) :
    (/\ Idle
     /\ i + 1 = Len(log)
     /\ StoreFailed(log[i])
     /\ log[i + 1].status = 200
     /\ \A k \in 1..i :
          \/ log[k].status = 200 /\ ~log[k].isMatch
          \/ /\ StoreFailed(log[k])
             /\ log[k].actor = log[i + 1].actor
             /\ log[k].pid = log[i + 1].pid
             /\ log[k].action = log[i + 1].action
     /\ TargetOf(log[i].pid) \in Users
     /\ TargetOf(log[i].pid) /= log[i].actor)
    => /\ MatchRefs(log[i].actor, TargetOf(log[i].pid)) <= 1
       /\ MatchRefs(TargetOf(log[i].pid), log[i].actor) <= 1

\* every match is listed on both sides
Symmetric ==
  \A u \in Users, v \in Users : (MatchRefs(u, v) > 0) <=> (MatchRefs(v, u) > 0)

\* C13: a one-sided match (one of the two appends persisted, the other
\* failed) does not last: as the two profiles go on listing matches,
\* discovering and swiping, the matches become symmetric again.
C13_Heals == (~Symmetric) ~> Symmetric

\* ----------------------------------------------------------------------- C14
Completed(r, actor, target, action) ==
  /\ req[r].op = "swipe" /\ req[r].pc = "done" /\ req[r].status = 200
  /\ req[r].actor = actor /\ req[r].pid = <<target>> /\ req[r].action = action

\* C14: when recordSwipe(A, B, like) and recordSwipe(B, A, like) are in
\* flight together and both have completed successfully, a match between A
\* and B exists in both profiles' matches and one of the calls returned
\* isMatch true.
C14_ConcurrentMutualLike ==
  \A r1, r2 \in Workers : \A u, v \in Users :
    (/\ r1 /= r2 /\ u /= v
     /\ Completed(r1, u, v, "like") /\ Completed(r2, v, u, "like"))
    => /\ MatchRefs(u, v) > 0 /\ MatchRefs(v, u) > 0
       /\ (req[r1].isMatch \/ req[r2].isMatch)

\* ----------------------------------------------------------------------- C15
\* how many elements of sequence s satisfy Test
CountIf(s, Test(_)) == Cardinality({ i \in 1..Len(s) : Test(s[i]) })

\* how many requests in flight satisfy Test
CountInFlight(Test(_)) == Cardinality({ r \in Workers : Test(req[r]) })

\* the swipe entries of actor u that successful calls have appended
SwipesAppended(u, pid, action) ==
  LET SameCall(e) == e.actor = u /\ e.pid = pid /\ e.action = action
      Answered(e) == SameCall(e) /\ e.status = 200
      Saved(q) == SameCall(q) /\ q.op = "swipe" /\ q.pc = "done" /\ q.status = 200
  IN CountIf(log, Answered) + CountInFlight(Saved)

\* the match entries naming v that calls have appended to u's document
MatchesAppended(u, v) ==
  LET OwnAnswered(e) == e.isMatch /\ e.actor = u /\ TargetOf(e.pid) = v
      OtherAnswered(e) == e.isMatch /\ e.actor = v /\ TargetOf(e.pid) = u
      OwnSaved(q) == /\ q.op = "swipe" /\ q.pc = "done" /\ q.status = 200
                     /\ q.isMatch /\ q.actor = u /\ q.tgt = v
      OtherSaved(q) == /\ q.op = "swipe" /\ q.pc \in {"saveCurrent", "done"}
                       /\ q.isMatch /\ q.actor = v /\ q.tgt = u
  IN CountIf(log, OwnAnswered) + CountIf(log, OtherAnswered)
       + CountInFlight(OwnSaved) + CountInFlight(OtherSaved)

\* C15: no append is lost: whatever the interleaving of the calls, a
\* profile's swipe history holds one entry for each swipe a successful call
\* of its owner pushed, and its matches hold one entry for each match a call
\* pushed on it, as actor or as target.
C15_NoLostAppend ==
  /\ \A u \in Users : \A pid \in ProfileIds, action \in Actions :
       LET Same(e) == e.profileId = pid /\ e.action = action
       IN CountIf(swipedProfiles[u], Same) = SwipesAppended(u, pid, action)
  /\ \A u, v \in Users :
       LET Names(m) == m.matchedUserId = <<v>>
       IN CountIf(matches[u], Names) = MatchesAppended(u, v)

\* two calls in flight together have both appended to b's document: a's like
\* its match entry, b's own call its swipe entry
C15_Witness ==
  /\ Completed(1, "a", "b", "like") /\ req[1].isMatch
  /\ req[2].op = "swipe" /\ req[2].pc = "done" /\ req[2].status = 200
  /\ req[2].actor = "b"
  /\ Len(swipedProfiles["b"]) = 2 /\ MatchRefs("b", "a") = 1

\* ----------------------------------------------------------------------- C16
\* the positions of the active entries of ms
ActiveAt(ms) == { i \in 1..Len(ms) : ms[i].isActive }

\* list holds the active entries of ms and only them, in stored order
ListsActive(list, ms) ==
  /\ Len(list) = Cardinality(ActiveAt(ms))
  /\ \A i \in ActiveAt(ms) :
       LET k == Cardinality({ j \in ActiveAt(ms) : j <= i })
       IN /\ <<list[k].id>> = ms[i].matchedUserId
          /\ list[k].timestamp = ms[i].timestamp

Discovered(q) == q.op = "nearby" /\ q.pc = "done" /\ q.status = 200

\* the distance of the i-th candidate of answer q from its requester
DistanceOf(q, i) == GetDistance(q.actor, q.profiles[i].userId[1])

\* C17: the candidate sequence returned by discoverNearby is non-decreasing
\* in distance from the requester, in owner-level and in pet-level shape.
C17_DistanceMonotone ==
  \A r \in Reqs :
    Discovered(req[r])
    => \A i, j \in 1..Len(req[r].profiles) :
         i < j => DistanceOf(req[r], i) <= DistanceOf(req[r], j)

\* a pet-level answer where one profile gave several candidates and a
\* farther profile follows it
C17_Witness ==
  \E r \in Reqs :
    /\ Discovered(req[r]) /\ req[r].type = "pets"
    /\ Len(req[r].profiles) >= 3
    /\ req[r].profiles[1].userId = req[r].profiles[2].userId
    /\ DistanceOf(req[r], 2) < DistanceOf(req[r], 3)

\* ----------------------------------------------------------------------- C18
\* the positions of answer q that hold a record of profile u
RecordsOf(q, u) == { i \in 1..Len(q.profiles) : q.profiles[i].userId = <<u>> }

\* the active pets of profile u
ActivePets(u) == { k \in 1..Len(Pets[u]) : Pets[u][k].isActive }

\* C18: a pet-level answer holds, for each profile in it, exactly one
\* candidate per active pet and nothing else (a profile with no pets or no
\* active pets gives no candidate); an owner-level answer holds exactly one
\* record per profile.
C18_Shaping ==
  \A r \in Reqs :
    Discovered(req[r])
    => LET q == req[r]
       IN /\ q.type = "owners"
               => \A u \in Users :
                    /\ Cardinality(RecordsOf(q, u)) <= 1
                    /\ \A i \in RecordsOf(q, u) : q.profiles[i].id = <<u>>
          /\ q.type = "pets"
               => \A u \in Users :
                    /\ \A i \in RecordsOf(q, u) :
                         \E k \in ActivePets(u) :
                           q.profiles[i].id = <<u, Pets[u][k].id>>
                    /\ RecordsOf(q, u) /= {}
                         => \A k \in ActivePets(u) :
                              Cardinality({ i \in RecordsOf(q, u) :
                                q.profiles[i].id = <<u, Pets[u][k].id>> }) = 1

\* ----------------------------------------------------------------------- C19
\* a filtered search answered with results
Searched(q) == q.op = "filtered" /\ q.pc = "done" /\ q.status = 200

\* the profiles answer q holds
ResultSet(q) == { q.profiles[i].userId[1] : i \in 1..Len(q.profiles) }

\* the profiles the search of q ranges over: not the requester, not swiped
Eligible(q) ==
  { u \in Users : u /= q.actor /\ <<u>> \notin SwipedProfileIds(q.actor)
                  /\ RecentlyActive[u] }

\* the pet born on birthDate is at least lo and less than hi years old
AgeInHalfOpen(birthDate, today, lo, hi) ==
  /\ DateLeq(<<birthDate[1] + lo, birthDate[2]>>, today)
  /\ ~DateLeq(<<birthDate[1] + hi, birthDate[2]>>, today)

\* the half-open range of years of each bracket
Bracket ==
  [puppy |-> <<0, 1>>, young |-> <<1, 3>>, adult |-> <<3, 7>>, senior |-> <<7, 100>>]

\* C19: filteredSearch with bracket puppy, young, adult or senior selects a
\* profile if and only if one of its pets has its age in years in the
\* half-open range [0,1), [1,3), [3,7) or [7,100) respectively.
C19_AgeBracket ==
  \A r \in Reqs :
    (Searched(req[r]) /\ req[r].ageRange /= "")
    => LET q == req[r]
           lo == Bracket[q.ageRange][1]
           hi == Bracket[q.ageRange][2]
       IN \A u \in Eligible(q) :
            u \in ResultSet(q)
            <=> \E k \in 1..Len(BirthDates[u]) :
                  AgeInHalfOpen(BirthDates[u][k], q.today, lo, hi)

\* ----------------------------------------------------------------------- C20
\* the position of profile u in the store's order
Pos(u) == CHOOSE i \in 1..Len(StoreOrder) : StoreOrder[i] = u

\* the profile at position i of answer q
ResultAt(q, i) == q.profiles[i].userId[1]

\* C20: with the prioritize-real-users flag set, every profile that is
\* verified and has an image precedes every profile that is not, and within
\* each group the store's order is kept; with the flag unset the store's
\* order is returned unchanged.  Either way no profile is lost or added.
C20_StablePartition ==
  \A r \in Reqs :
    Searched(req[r])
    => LET q == req[r]
       IN /\ q.ageRange = "" => ResultSet(q) = Eligible(q)
          /\ Cardinality(ResultSet(q)) = Len(q.profiles)
          /\ \A i, j \in 1..Len(q.profiles) :
               i < j =>
                 IF q.prioritizeRealUsers
                 THEN /\ IsReal[ResultAt(q, j)] => IsReal[ResultAt(q, i)]
                      /\ IsReal[ResultAt(q, i)] = IsReal[ResultAt(q, j)]
                           => Pos(ResultAt(q, i)) < Pos(ResultAt(q, j))
                 ELSE Pos(ResultAt(q, i)) < Pos(ResultAt(q, j))

\* a prioritized answer that moved a real profile before two others, which
\* keep their order
C20_Witness ==
  \E r \in Reqs :
    /\ Searched(req[r]) /\ req[r].prioritizeRealUsers
    /\ Len(req[r].profiles) = 3
    /\ IsReal[ResultAt(req[r], 1)]
    /\ ~IsReal[ResultAt(req[r], 2)] /\ ~IsReal[ResultAt(req[r], 3)]
    /\ Pos(ResultAt(req[r], 1)) > Pos(ResultAt(req[r], 3))

\* ----------------------------------------------------------------------- C21
\* C21: the number of profiles discoverNearby asks the store for never
\* exceeds 50, whatever limit the caller requests, and is 20 when the caller
\* gives none.
C21_LimitCap ==
  \A r \in Reqs :
    Discovered(req[r])
    => /\ req[r].storeLimit <= 50
       /\ req[r].limit = <<>> => req[r].storeLimit = 20

\* ----------------------------------------------------------------------- C22
\* the answer of a request rejected by validation, before any store access
RejectedUnread(r) ==
  /\ req'[r].pc = "done" /\ req'[r].status = 400 /\ ~req'[r].accessed
  /\ UNCHANGED <<swipedProfiles, matches, totalMatches>>

\* C22: discoverNearby with a radius not greater than 0, and filteredSearch
\* without a filters object or with an unrecognised age bracket, are rejected
\* with a validation error, without any store read or write.
C22_ValidationFirst ==
  [][\A r \in Reqs :
       (\/ NearbyZeroRadius(r)
        \/ FilteredUnknownBracket(r)
        \/ \E token \in Tokens : FilteredWithoutFilters(r, token))
       => RejectedUnread(r)]_vars

\* ----------------------------------------------------------------------- C23
\* v's persisted history holds, at some position, a like or superlike whose
\* target resolves to u
HasLiked(v, u) ==
  \E k \in 1..Len(swipedProfiles[v]) :
    /\ TargetOf(swipedProfiles[v][k].profileId) = u
    /\ swipedProfiles[v][k].action \in {"like", "superlike"}

\* C23: if B's history holds a like or superlike on A, then a like or
\* superlike by A on a target that resolves to B, given as plain or as
\* compound id, succeeds with isMatch true and forms the match on both sides.
C23_IdFormIndependent ==
  \A r \in Reqs :
    LET q == req[r]
    IN (/\ q.op = "swipe" /\ q.pc = "done"
        /\ q.action \in {"like", "superlike"}
        /\ q.actor \in Users /\ TargetOf(q.pid) \in Users
        /\ TargetOf(q.pid) /= q.actor
        /\ HasLiked(TargetOf(q.pid), q.actor))
       => /\ q.status = 200 /\ q.isMatch
          /\ MatchRefs(q.actor, TargetOf(q.pid)) > 0
          /\ MatchRefs(TargetOf(q.pid), q.actor) > 0

\* ----------------------------------------------------------------------- C24
\* the step in which request r ends with success
Succeeds(r) ==
  /\ req[r].op = "swipe" /\ req[r].pc /= "done"
  /\ req'[r].pc = "done" /\ req'[r].status = 200

C25_MutualInterest ==
  Idle => \A u, v \in Users :
            MatchRefs(u, v) > 0 => HasLiked(u, v) /\ HasLiked(v, u)

\* ----------------------------------------------------------------------- C26
\* the matches that successful calls have given profile u, as actor or target
MatchesCounted(u) ==
  LET Own(e) == e.isMatch /\ e.actor = u
      Other(e) == e.isMatch /\ TargetOf(e.pid) = u
  IN CountIf(log, Own) + CountIf(log, Other)

\* C26: a recordSwipe call that ends with an error response has changed no
\* profile's persisted history, matches or totalMatches: whenever no call is
\* in progress, the histories and matches hold the entries of the successful
\* calls and no other, and no counter exceeds the matches of successful calls.
C26_FailureAtomic ==
  Idle =>
    /\ \A u \in Users : \A pid \in ProfileIds, action \in Actions :
         LET Same(e) == e.profileId = pid /\ e.action = action
         IN CountIf(swipedProfiles[u], Same) = SwipesAppended(u, pid, action)
    /\ \A u, v \in Users :
         LET Names(m) == m.matchedUserId = <<v>>
         IN CountIf(matches[u], Names) = MatchesAppended(u, v)
    /\ \A u \in Users : totalMatches[u] <= MatchesCounted(u)

\* ----------------------------------------------------------------------- C27
\* C27: no profile's persisted matches holds an entry referencing that same
\* profile, whatever calls were made, calls on one's own profile included.
C27_NoSelfMatch == \A u \in Users : MatchRefs(u, u) = 0

\* ----------------------------------------------------------------------- C28
\* a swipe call of u on v's plain id, answered 200
Answered(q, u, v) ==
  /\ q.op = "swipe" /\ q.pc = "done" /\ q.status = 200
  /\ q.actor = u /\ q.pid = <<v>>

\* the positions of v's persisted history that hold a swipe on u
SwipesOn(v, u) ==
  { k \in 1..Len(swipedProfiles[v]) : TargetOf(swipedProfiles[v][k].profileId) = u }

\* v's most recent persisted swipe on u is a like or superlike
LatestIsLike(v, u) ==
  \E k \in SwipesOn(v, u) :
    /\ \A j \in SwipesOn(v, u) : j <= k
    /\ swipedProfiles[v][k].action \in {"like", "superlike"}

C29_CounterConsistent ==
  Idle => \A u \in Users : totalMatches[u] = Len(matches[u])

\* ----------------------------------------------------------------------- C30
\* C30: a GET /api/profile/me that starts when every earlier request has
\* completed, every update included, answers with the data of the store:
\* no earlier reader has left pre-update data in the cache.
C30_CacheCoherent ==
  [][\A r \in Workers :
       (/\ \A w \in Workers : req[w].pc = "idle"
        /\ req'[r].op = "me" /\ req'[r].pc = "done")
       => req'[r].profileData = name[req'[r].actor]]_vars

====
